---- MODULE Spec2Model ----
(***************************************************************************)
(* Model of ThingsBoardClient.download_telemetries (descargar_v0.py) and   *)
(* of the helpers it calls: get_telemetry_keys, get_time_range, the page   *)
(* loop, the chunked CSV writer and the calibration pass.                  *)
(*                                                                         *)
(* Time is measured in milliseconds from start_date (= now - lookback).    *)
(* The remote store answers a range query with the samples whose ts lies   *)
(* in [startTs, endTs], each key's oldest first, the row limit applied to  *)
(* each key separately.                                                    *)
(***************************************************************************)
EXTENDS Integers, Sequences, FiniteSets, TLC

\* ---------------------------------------------------------------- bounds
NumDevices == 2        \* devices of the (single) gateway
NumTs == 5             \* distinct sample timestamps the remote store may hold
MaxSamples == 3        \* samples in the whole remote store
LookbackDays == 1      \* days of the probe horizon (30 in the source, line 258)
limit == 1             \* rows per key and page (10000 in the source, line 432)
MaxRuns == 2           \* runs of the download command
MaxParts == 3          \* part files the model lets one device open
MaxFaults == 1         \* failed requests in one behaviour
RowBytes == 4194304    \* bytes of one rendered CSV row
HeaderBytes == 64      \* bytes of the header line
MaxRows == 1           \* rows of the raw part file the calibration commands read
CalParts == 2          \* raw part files of the device directory they work on
MaxCalDepth == 2       \* `_cal` suffixes of a file name the model follows
MaxClock == 1          \* ticks of the file-system clock

\* ------------------------------------------------------ program constants
DayMs == 86400000
MsPerSec == 1000
max_file_size == 10 * 1024 * 1024
Hundredths == 100      \* currents, voltages and powers are counted in hundredths

Devices == 1 .. NumDevices
KeyOrder == <<"current", "voltage">>   \* order in which the server lists keys
KeySet == {"current", "voltage"}

\* one sample time older than the probe horizon, then 1000, 1500 (same second)
\* and 2000 on the first probed day, then the same on the next days
TsOf(i) == ((i + 1) \div 3 - 1) * DayMs + 1000 + ((i + 1) % 3) * 500
TsValues == {TsOf(i) : i \in 1 .. NumTs}
Slots == Devices \X KeySet \X TsValues

\* value the remote store holds for a sample
ValueAt(k, t) == IF k = "current" THEN (t % DayMs) \div 500 ELSE 230

\* ---------------------------------------------------------------- helpers
Min(S) == CHOOSE x \in S : \A y \in S : x <= y
Max(S) == CHOOSE x \in S : \A y \in S : x >= y
Range(s) == {s[i] : i \in DOMAIN s}

RECURSIVE SortedSeq(_)
SortedSeq(S) == IF S = {} THEN <<>>
                ELSE LET m == Min(S) IN <<m>> \o SortedSeq(S \ {m})

Take(s, n) == SubSeq(s, 1, IF Len(s) < n THEN Len(s) ELSE n)

\* Python truthiness of an optional timestamp: None and 0 are false
Truthy(o) == o # {} /\ o # {0}
TheVal(o) == CHOOSE x \in o : TRUE

VARIABLES
  remote,        \* remote store: device -> key -> set of sample timestamps
  archive,       \* device -> part number -> lines of <dev>_telemetry_part<N>.csv
  calib,         \* device -> state of calibracion.json: "unread" until the run first
                 \* looks at it, then "absent", "valid", "invalid" or "default";
                 \* "invalid" is a file generate_transfer_function raises on: not
                 \* JSON, a key missing, or fewer than two calibration points
  calFiles,      \* device -> parts that have a _cal.csv file
  run,           \* number of the current run
  pc,            \* position of the run
  dev,           \* device being processed
  keys,          \* keys returned by get_telemetry_keys
  probeDay, probeKey, oldest_timestamp, newest_timestamp,
  start_ts, end_ts, start_ts_download, file_part, all_data,
  fetchEnd,      \* how the page loop of the current device ended
  pages,         \* page requests issued for the current device
  written,       \* rows appended for the current device in this run
  persisted,     \* windows of the devices completed in this run with rows written
  deleteRequests,\* delete requests issued to the remote store
  log_entries,   \* entries of the report, as <<device, tag>>
  reportWritten, \* the report file of this run was written
  faults,        \* requests that have failed so far
  prevArchive    \* the archive as the previous run left it

\* the device directory the `calibracion` and `uncal` commands work on
VARIABLES
  csvFiles,      \* file name -> the CSV file of that name (exists, mtime, rows)
  calibration,   \* calibracion.json: state, calibration points, mtime
  clock,         \* the file-system clock
  lastCmd,       \* what made the last step: "calibracion", "uncal" or "env"
  lastPass,      \* how the last calibration pass ended: "ok" or "raised"
  removed        \* the files the last step removed

engineVars == <<csvFiles, calibration, clock, lastCmd, lastPass, removed>>

downloadVars == <<remote, archive, calib, calFiles, run, pc, dev, keys, probeDay, probeKey,
          oldest_timestamp, newest_timestamp, start_ts, end_ts, start_ts_download,
          file_part, all_data, fetchEnd, pages, written, persisted, deleteRequests,
          log_entries, reportWritten, faults, prevArchive>>

vars == <<downloadVars, engineVars>>

remoteVars == <<remote, deleteRequests>>
fileVars == <<archive, calib, calFiles, prevArchive>>
probeVars == <<probeDay, probeKey, oldest_timestamp, newest_timestamp>>
fetchVars == <<start_ts, end_ts, start_ts_download, file_part, all_data, fetchEnd,
               pages, written>>

\* ------------------------------------------------------- the remote store
InRange(d, k, lo, hi) == {t \in remote[d][k] : lo <= t /\ t <= hi}

\* GET .../values/timeseries?keys=..&startTs=..&endTs=..&limit=n, oldest first
ServerValues(d, ks, lo, hi, n) ==
  [k \in ks |-> Take(SortedSeq(InRange(d, k, lo, hi)), n)]

\* GET .../values/timeseries?keys=k&limit=1, newest first, no range
ServerLatest(d, k) == IF remote[d][k] = {} THEN <<>> ELSE <<Max(remote[d][k])>>

\* GET .../keys/timeseries: the keys that hold data, in the server's order
ServerKeys(d) == SelectSeq(KeyOrder, LAMBDA k : remote[d][k] # {})

TotalSamples(r) == Cardinality({s \in Slots : s[3] \in r[s[1]][s[2]]})

\* ------------------------------------------------------------- the files
NoFile == <<>>
HeaderLine(cols) == [kind |-> "header", timestamp |-> 0, cells |-> [k \in cols |-> {}]]
Rows(f) == SelectSeq(f, LAMBDA l : l.kind = "row")
Headers(f) == SelectSeq(f, LAMBDA l : l.kind = "header")
FileSize(f) == HeaderBytes * Len(Headers(f)) + RowBytes * Len(Rows(f))

\* datetime.fromtimestamp(ts / 1000, tz=utc).strftime('%Y-%m-%d %H:%M:%S UTC'):
\* the text names the second, the milliseconds are dropped
FormatTs(t) == t \div MsPerSec

EmptyArchive == [d \in Devices |-> [p \in 1 .. MaxParts |-> NoFile]]

\* ------------------------------------- the files of the calibration commands
\* a file name is the sequence of its pieces:
\* <device>_telemetry_part<N>.csv, then <...>_cal.csv, <...>_cal_cal.csv, ...
PartDigits == <<"1", "2", "3", "4", "5", "6", "7", "8", "9">>
Name(p, n) ==
  <<"dev", "_telemetry", "_part", PartDigits[p]>> \o [i \in 1 .. n |-> "_cal"] \o <<".csv">>
Names == {Name(p, n) : p \in 1 .. CalParts, n \in 0 .. MaxCalDepth}
Depth(name) == Len(name) - 5
PartOf(name) == CHOOSE p \in 1 .. CalParts : PartDigits[p] = name[4]

\* a cell of a CSV row: a number (in hundredths), the empty string, text that
\* float() does not parse, or no such column
NumCell(v) == [kind |-> "num", val |-> v]
EmptyCell == [kind |-> "empty", val |-> 0]
BadCell == [kind |-> "bad", val |-> 0]
AbsentCell == [kind |-> "absent", val |-> 0]

NoCsv == [exists |-> FALSE, mtime |-> 0, hasCal |-> FALSE, rows |-> <<>>]
NoCsvFiles == [n \in Names |-> NoCsv]

\* calibracion.json
NoCalibration == [state |-> "absent", points |-> <<>>, mtime |-> 0]
Table(points, t) == [state |-> "json", points |-> points, mtime |-> t]

\* the download command does not touch the directory of the calibration commands
EngineIdle ==
  /\ csvFiles = NoCsvFiles
  /\ removed = {}
  /\ calibration = NoCalibration
  /\ clock = 0
  /\ lastCmd = "env"
  /\ lastPass = "ok"

Init ==
  /\ remote \in {r \in [Devices -> [KeySet -> SUBSET TsValues]] :
                   TotalSamples(r) <= MaxSamples}
  /\ archive = EmptyArchive
  /\ prevArchive = EmptyArchive
  /\ calib = [d \in Devices |-> "unread"]
  /\ calFiles = [d \in Devices |-> {}]
  /\ run = 1
  /\ pc = "keys"
  /\ dev = 1
  /\ keys = <<>>
  /\ probeDay = 0 /\ probeKey = 1
  /\ oldest_timestamp = {} /\ newest_timestamp = {}
  /\ start_ts = 0 /\ end_ts = 0 /\ start_ts_download = 0
  /\ file_part = 1
  /\ all_data = <<>>
  /\ fetchEnd = "none"
  /\ pages = <<>>
  /\ written = <<>>
  /\ persisted = {}
  /\ deleteRequests = {}
  /\ log_entries = {}
  /\ reportWritten = FALSE
  /\ faults = 0
  /\ EngineIdle


\* ------------------------------------------------------------ the actions
\* a request fails: the model lets MaxFaults requests fail
Fault == faults < MaxFaults /\ faults' = faults + 1
NoFault == faults' = faults

Log(tag) == log_entries' = log_entries \cup {<<dev, tag>>}

\* end of one device's iteration of the loop at line 416; after the last
\* device the run goes on to the report (lines 501-508)
NextDevice ==
  IF dev < NumDevices
    THEN dev' = dev + 1 /\ pc' = "keys"
    ELSE dev' = dev /\ pc' = "report"

\* lines 417-422 and get_telemetry_keys (183-195): a 200 answer gives the key
\* list, another status gives [], and requests.get itself may raise, which
\* nothing catches
GetTelemetryKeys(outcome) ==
  /\ pc = "keys"
  /\ \/ /\ outcome = "ok"
        /\ NoFault
        /\ keys' = ServerKeys(dev)
        /\ pc' = "probe"
        /\ UNCHANGED log_entries
     \/ /\ outcome = "status"
        /\ Fault
        /\ keys' = <<>>
        /\ pc' = "probe"
        /\ UNCHANGED log_entries
     \/ /\ outcome = "transport"
        /\ Fault
        /\ keys' = keys
        /\ pc' = "crashed"
        /\ UNCHANGED log_entries
  \* get_time_range, lines 258-262
  /\ probeDay' = 0 /\ probeKey' = 1
  /\ oldest_timestamp' = {} /\ newest_timestamp' = {}
  /\ pages' = <<>> /\ written' = <<>> /\ fetchEnd' = "none"
  /\ UNCHANGED <<engineVars, remoteVars, fileVars, run, dev, start_ts, end_ts, start_ts_download,
                 file_part, all_data, persisted, reportWritten>>

Found(o, n) == Truthy(o) /\ Truthy(n)

\* a handler that gives up the remaining keys of the day
AfterProbeErrorAbort(i, n) == n + 1

\* lines 312-314: the handler of a failed probe request only logs; the `for`
\* loop goes on with the key after key number i of the n keys
AfterProbeError(i, n) == i + 1

\* one iteration of `for key in keys` (lines 275-314) on day probeDay
ProbeKey(outcome) ==
  /\ pc = "probe"
  /\ probeKey <= Len(keys)
  /\ LET k == keys[probeKey]
         lo == probeDay * DayMs
         hi == lo + DayMs
         first == ServerValues(dev, {k}, lo, hi, 1)[k]
         last == ServerLatest(dev, k)
         o1 == IF first # <<>> /\ (oldest_timestamp = {} \/ first[1] < TheVal(oldest_timestamp))
                 THEN {first[1]} ELSE oldest_timestamp
         n1 == IF first # <<>> /\ last # <<>>
                    /\ (newest_timestamp = {} \/ last[1] > TheVal(newest_timestamp))
                 THEN {last[1]} ELSE newest_timestamp
     IN \/ /\ outcome = "ok"
           /\ NoFault
           /\ oldest_timestamp' = o1
           /\ newest_timestamp' = n1
           /\ probeKey' = IF Found(o1, n1) THEN Len(keys) + 1 ELSE probeKey + 1
           /\ IF first # <<>> THEN Log("found") ELSE UNCHANGED log_entries
        \/ /\ outcome = "fail_first"
           /\ Fault
           /\ UNCHANGED <<oldest_timestamp, newest_timestamp>>
           /\ probeKey' = AfterProbeError(probeKey, Len(keys))
           /\ Log("probe_error")
        \/ /\ outcome = "fail_last"
           /\ first # <<>>
           /\ Fault
           /\ oldest_timestamp' = o1
           /\ newest_timestamp' = newest_timestamp
           /\ probeKey' = AfterProbeError(probeKey, Len(keys))
           /\ Log("probe_error")
  /\ UNCHANGED <<engineVars, remoteVars, fileVars, run, pc, dev, keys, probeDay, fetchVars,
                 persisted, reportWritten>>

\* lines 316-322: no data found on this day, go on to the next one
ProbeNextDay ==
  /\ pc = "probe"
  /\ probeKey > Len(keys)
  /\ ~Found(oldest_timestamp, newest_timestamp)
  /\ probeDay < LookbackDays
  /\ probeDay' = probeDay + 1
  /\ probeKey' = 1
  /\ UNCHANGED <<engineVars, faults, remoteVars, fileVars, run, pc, dev, keys, oldest_timestamp,
                 newest_timestamp, fetchVars, persisted, log_entries, reportWritten>>

\* a skip that logs and then falls through to the page loop
SkipDeviceFallThrough ==
  /\ Log("no_data")
  /\ pc' = "fetch"
  /\ dev' = dev
  /\ UNCHANGED <<start_ts, end_ts, start_ts_download, file_part, all_data>>

\* lines 426-429: no time range, the device is logged and skipped (`continue`)
SkipDevice ==
  /\ Log("no_data")
  /\ NextDevice
  /\ UNCHANGED <<start_ts, end_ts, start_ts_download, file_part, all_data>>

\* the probe ends (lines 316-337) and download_telemetries takes its result
\* (lines 425-435)
ProbeReturn ==
  /\ pc = "probe"
  /\ probeKey > Len(keys)
  /\ Found(oldest_timestamp, newest_timestamp) \/ probeDay >= LookbackDays
  /\ IF oldest_timestamp = {} \/ newest_timestamp = {}
          \/ ~Found(oldest_timestamp, newest_timestamp)
       THEN SkipDevice
       ELSE /\ Log("range")
            /\ start_ts' = TheVal(oldest_timestamp)
            /\ end_ts' = TheVal(newest_timestamp)
            /\ start_ts_download' = TheVal(oldest_timestamp)
            /\ file_part' = 1
            /\ all_data' = <<>>
            /\ pc' = "fetch"
            /\ dev' = dev
  /\ UNCHANGED <<engineVars, faults, remoteVars, fileVars, run, keys, probeVars, fetchEnd, pages, written,
                 persisted, reportWritten>>

\* a fold that fills the keys a timestamp has no sample of with zero
FoldZeroFill(data, resp) ==
  LET pageTs == UNION {Range(resp[k]) : k \in DOMAIN resp}
  IN [t \in (DOMAIN data) \cup pageTs |->
        [k \in KeySet |->
           IF k \in DOMAIN resp /\ t \in Range(resp[k]) THEN {ValueAt(k, t)}
           ELSE IF t \in DOMAIN data /\ data[t][k] # {} THEN data[t][k]
           ELSE {0}]]

\* lines 450-456: fold one page into all_data (timestamp -> key -> value)
Fold(data, resp) ==
  LET pageTs == UNION {Range(resp[k]) : k \in DOMAIN resp}
  IN [t \in (DOMAIN data) \cup pageTs |->
        [k \in KeySet |->
           IF k \in DOMAIN resp /\ t \in Range(resp[k]) THEN {ValueAt(k, t)}
           ELSE IF t \in DOMAIN data THEN data[t][k]
           ELSE {}]]

\* line 459: the start of the next page
NextStart(last_ts) == last_ts + 1

\* a handler that logs the failed request and goes on to the write
AfterFetchErrorNoBreak == "write"

\* lines 461-464: the handler of a failed page request leaves the page loop
\* (`break`); what follows the loop is the calibration of the device
AfterFetchError == "calibrate"

\* one iteration of the page loop up to the write (lines 437-464)
FetchPage(outcome, listsEmpty) ==
  /\ pc = "fetch"
  /\ start_ts_download <= end_ts
  /\ pages' = Append(pages,
       [startTs |-> start_ts_download, endTs |-> end_ts,
        resp |-> ServerValues(dev, Range(keys), start_ts_download, end_ts, limit)])
  /\ LET resp == ServerValues(dev, Range(keys), start_ts_download, end_ts, limit)
         pageTs == UNION {Range(resp[k]) : k \in DOMAIN resp}
     IN \/ /\ outcome = "ok"
           /\ pageTs # {}
           /\ NoFault
           /\ all_data' = Fold(all_data, resp)
           /\ start_ts_download' = NextStart(Max(pageTs))
           /\ pc' = "write"
           /\ UNCHANGED <<fetchEnd, log_entries>>
        \/ /\ outcome = "ok"
           /\ pageTs = {}
           /\ NoFault
           /\ IF listsEmpty
                THEN \* {key: []}: max() of an empty sequence raises ValueError
                     pc' = "crashed" /\ UNCHANGED <<fetchEnd, log_entries>>
                ELSE \* {}: `if not data: break`
                     pc' = "calibrate" /\ fetchEnd' = "empty" /\ Log("no_more")
           /\ UNCHANGED <<all_data, start_ts_download>>
        \/ /\ outcome = "fail"
           /\ Fault
           /\ pc' = AfterFetchError
           /\ fetchEnd' = "error"
           /\ Log("fetch_error")
           /\ UNCHANGED <<all_data, start_ts_download>>
  /\ UNCHANGED <<engineVars, remoteVars, fileVars, run, dev, keys, probeVars, start_ts, end_ts,
                 file_part, written, persisted, reportWritten>>

\* lines 438-443: each page is a new GET against the server's store, which is
\* not the program's; between two requests the samples of the device can be
\* gone (expired by the server's time-to-live or deleted by another client),
\* and the next page then carries no sample
TelemetryExpires ==
  /\ pc = "fetch"
  /\ \E k \in KeySet : remote[dev][k] # {}
  /\ remote' = [remote EXCEPT ![dev] = [k \in KeySet |-> {}]]
  /\ UNCHANGED <<engineVars, deleteRequests, fileVars, run, pc, dev, keys, probeVars,
                 fetchVars, persisted, log_entries, reportWritten, faults>>

\* line 437: the loop condition fails
FetchDone ==
  /\ pc = "fetch"
  /\ start_ts_download > end_ts
  /\ pc' = "calibrate"
  /\ fetchEnd' = "exhausted"
  /\ UNCHANGED <<engineVars, faults, remoteVars, fileVars, run, dev, keys, probeVars, start_ts, end_ts,
                 start_ts_download, file_part, all_data, pages, written, persisted,
                 log_entries, reportWritten>>

\* lines 478-482: the rows the writer renders, all of all_data in timestamp order
RowsToWrite(data, cols) ==
  LET order == SortedSeq(DOMAIN data)
  IN [i \in 1 .. Len(order) |->
        [kind |-> "row", timestamp |-> FormatTs(order[i]),
         cells |-> [k \in cols |-> data[order[i]][k]]]]

\* lines 485-489: the part the next pass of the write loop appends to
PartAfterWrite(part, size) == IF size > max_file_size THEN part + 1 ELSE part

\* a writer that puts the header in front of every append
NeedsHeaderAlways(f) == TRUE

\* lines 475-476: the header is written when the opened file has size 0
NeedsHeader(f) == FileSize(f) = 0

\* one pass of `while True` (lines 471-489): append to the current part, header
\* first when the file is empty, then switch part when the file is too large.
\* The source has no bound on file_part; the model follows the loop up to part
\* MaxParts + 1 and stays there with pc = "write", where the source goes on
\* with the next part in the same way.
WritePart ==
  /\ pc = "write"
  /\ file_part <= MaxParts
  /\ LET f == archive[dev][file_part]
         cols == Range(keys)
         f1 == IF NeedsHeader(f) THEN f \o <<HeaderLine(cols)>> ELSE f
         f2 == f1 \o RowsToWrite(all_data, cols)
         order == SortedSeq(DOMAIN all_data)
     IN /\ archive' = [archive EXCEPT ![dev][file_part] = f2]
        /\ written' = written \o [i \in 1 .. Len(order) |->
                                    [part |-> file_part, ts |-> order[i],
                                     page |-> Len(pages)]]
        /\ file_part' = PartAfterWrite(file_part, FileSize(f2))
        /\ pc' = IF FileSize(f2) > max_file_size THEN "write" ELSE "fetch"
  /\ UNCHANGED <<engineVars, faults, remote, deleteRequests, calib, calFiles, prevArchive, run, dev, keys,
                 probeVars, start_ts, end_ts, start_ts_download, all_data, fetchEnd,
                 pages, persisted, log_entries, reportWritten>>

\* the part files the calibration loop finds (lines 495-497)
PartsToCalibrate == {p \in 1 .. file_part : p <= MaxParts /\ archive[dev][p] # NoFile}

\* lines 491-499 with process_and_calibrate_telemetry (765-832, the definition
\* in force): without a calibration file the call creates the default one and
\* returns; an unusable calibration file makes generate_transfer_function
\* raise, which nothing catches
CalibrateDevice(found) ==
  /\ pc = "calibrate"
  /\ IF PartsToCalibrate = {} \/ calib[dev] # "unread"
       THEN found = calib[dev]
       ELSE found \in {"absent", "valid", "invalid"}
  /\ IF PartsToCalibrate # {} /\ found = "invalid"
       THEN /\ pc' = "crashed"
            /\ dev' = dev
            /\ calib' = [calib EXCEPT ![dev] = found]
            /\ UNCHANGED <<calFiles, persisted>>
            /\ Log("saved")
       ELSE /\ calib' = [calib EXCEPT ![dev] =
                           IF PartsToCalibrate # {} /\ found = "absent" THEN "default" ELSE found]
            /\ calFiles' = [calFiles EXCEPT ![dev] =
                           @ \cup (IF found = "absent" /\ PartsToCalibrate # {}
                                     THEN PartsToCalibrate \ {Min(PartsToCalibrate)}
                                     ELSE PartsToCalibrate)]
            /\ persisted' = IF written # <<>>
                              THEN persisted \cup {[device |-> dev, startTs |-> start_ts,
                                                    endTs |-> end_ts]}
                              ELSE persisted
            /\ Log("saved")
            /\ NextDevice
  /\ UNCHANGED <<engineVars, faults, remoteVars, archive, prevArchive, run, keys, probeVars, fetchVars,
                 reportWritten>>

\* lines 501-508: the report is written and mailed
WriteReport ==
  /\ pc = "report"
  /\ reportWritten' = TRUE
  /\ pc' = "done"
  /\ UNCHANGED <<engineVars, faults, remoteVars, fileVars, run, dev, keys, probeVars, fetchVars, persisted,
                 log_entries>>

\* the command is run again (lines 961-966): a new client, the files remain
StartRun ==
  /\ pc \in {"done", "crashed"}
  /\ run < MaxRuns
  /\ run' = run + 1
  /\ pc' = "keys"
  /\ dev' = 1
  /\ keys' = <<>>
  /\ probeDay' = 0 /\ probeKey' = 1
  /\ oldest_timestamp' = {} /\ newest_timestamp' = {}
  /\ start_ts' = 0 /\ end_ts' = 0 /\ start_ts_download' = 0
  /\ file_part' = 1
  /\ all_data' = <<>>
  /\ fetchEnd' = "none"
  /\ pages' = <<>>
  /\ written' = <<>>
  /\ persisted' = {}
  /\ log_entries' = {}
  /\ reportWritten' = FALSE
  /\ prevArchive' = archive
  /\ UNCHANGED <<engineVars, faults, remoteVars, archive, calib, calFiles>>

Next ==
  \/ \E o \in {"ok", "status", "transport"} : GetTelemetryKeys(o)
  \/ \E o \in {"ok", "fail_first", "fail_last"} : ProbeKey(o)
  \/ ProbeNextDay
  \/ ProbeReturn
  \/ \E o \in {"ok", "fail"}, e \in BOOLEAN : FetchPage(o, e)
  \/ TelemetryExpires
  \/ FetchDone
  \/ WritePart
  \/ \E c \in {"unread", "absent", "valid", "invalid", "default"} : CalibrateDevice(c)
  \/ WriteReport
  \/ StartRun

Spec == Init /\ [][Next]_vars

\* download_telemetries is one sequential thread: while it has a next statement
\* it executes it. Only the loops of one device are under this condition; the
\* requests' outcomes and the server's store stay free.
DeviceLoopStep == (\E o \in {"ok", "fail"}, e \in BOOLEAN : FetchPage(o, e)) \/ FetchDone \/ WritePart
LiveSpec == Spec /\ WF_vars(DeviceLoopStep)

\* get_last_telemetry_timestamp (197-229): the timestamp text of the last row
\* of a part file, {} when the file has no row
GetLastTelemetryTimestamp(f) ==
  IF Rows(f) = <<>> THEN {} ELSE {Rows(f)[Len(Rows(f))].timestamp}

\* ------------------------------------------------- the calibration engine
\* create_default_calibration (834-855): the points of the default table, as
\* <<lectura_sensor, corriente_real>> in hundredths
DefaultPoints == <<<<100, 100>>, <<200, 200>>, <<300, 300>>, <<400, 400>>>>

\* tables an operator may install: one that is not the identity and is not
\* listed in the order of its readings, and one with a single point
KinkedPoints == <<<<300, 350>>, <<100, 120>>, <<200, 300>>>>
OnePoint == <<<<100, 100>>>>
CorruptCalibration(t) == [state |-> "corrupt", points |-> <<>>, mtime |-> t]

\* round(n / d, 2) for quantities counted in hundredths (d > 0): the nearest
\* integer to the exact quotient, a tie going to the even one
RoundDiv(n, d) ==
  LET q == n \div d
      r == n % d
  IN IF 2 * r < d THEN q
     ELSE IF 2 * r > d THEN q + 1
     ELSE IF q % 2 = 0 THEN q ELSE q + 1

RECURSIVE SortPoints(_)
SortPoints(S) ==
  IF S = {} THEN <<>>
  ELSE LET m == CHOOSE x \in S : \A y \in S : x[1] <= y[1]
       IN <<m>> \o SortPoints(S \ {m})

\* generate_transfer_function raises: the file is not the expected JSON (line
\* 677, 681) or holds fewer than two points (lines 685-686)
TransferFunctionRaises(cal) == cal.state # "json" \/ Len(cal.points) < 2

\* an interpolation that holds the end values outside the sampled range
TransferFunctionClamped(points, x) ==
  LET s == SortPoints(Range(points))
      n == Len(s)
      below == Cardinality({i \in 1 .. n : s[i][1] < x})
      hi == IF below < 1 THEN 2 ELSE IF below > n - 1 THEN n ELSE below + 1
      x0 == s[hi - 1][1]
      y0 == s[hi - 1][2]
      x1 == s[hi][1]
      y1 == s[hi][2]
  IN IF x < s[1][1] THEN s[1][2]
     ELSE IF x > s[n][1] THEN s[n][2]
     ELSE RoundDiv(y0 * (x1 - x0) + (y1 - y0) * (x - x0), x1 - x0)

\* interp1d(sensor_readings, real_values, fill_value="extrapolate") (line 690)
\* evaluated at x and rounded as line 814 rounds it: the readings are sorted,
\* the segment is the one searchsorted finds, clipped to the first and the last
\* segment, and the value is y0 + slope * (x - x0)
TransferFunction(points, x) ==
  LET s == SortPoints(Range(points))
      n == Len(s)
      below == Cardinality({i \in 1 .. n : s[i][1] < x})
      hi == IF below < 1 THEN 2 ELSE IF below > n - 1 THEN n ELSE below + 1
      x0 == s[hi - 1][1]
      y0 == s[hi - 1][2]
      x1 == s[hi][1]
      y1 == s[hi][2]
  IN RoundDiv(y0 * (x1 - x0) + (y1 - y0) * (x - x0), x1 - x0)

\* float(row.get(name, 0) or 0) (lines 807-808): a missing or empty cell is 0,
\* text that is not a number raises ValueError
FloatOf(cell) == IF cell.kind = "num" THEN cell.val ELSE 0
FloatRaises(cell) == cell.kind = "bad"

\* a policy that evaluates the transfer function for every reading
CurrentCalEvaluated(points, current) == TransferFunction(points, current)

\* line 814
CurrentCal(points, current) ==
  IF current > 0 THEN TransferFunction(points, current) ELSE 0

\* line 815: round(voltage * current_cal, 2)
PowerCal(voltage, current_cal) == RoundDiv(voltage * current_cal, Hundredths)

\* a trigger that never fires
RecalibrateNever(calib_mtime, csv_mtime) == FALSE

\* lines 775-780
RecalibrateAll(calib_mtime, csv_mtime) == calib_mtime > csv_mtime

\* a row writer that puts the parsed readings in place of the text read
CalibrateRowParsed(row, hasCal, points, recalibrate_all) ==
  [row EXCEPT !.current = NumCell(FloatOf(row.current)),
              !.voltage = NumCell(FloatOf(row.voltage)),
              !.current_cal = NumCell(CurrentCal(points, FloatOf(row.current))),
              !.power_cal = NumCell(PowerCal(FloatOf(row.voltage),
                                             CurrentCal(points, FloatOf(row.current))))]

\* lines 806-822: one row of the calibrated file
CalibrateRow(row, hasCal, points, recalibrate_all) ==
  IF recalibrate_all \/ ~hasCal
    THEN LET current_cal == CurrentCal(points, FloatOf(row.current))
         IN [row EXCEPT !.current_cal = NumCell(current_cal),
                        !.power_cal = NumCell(PowerCal(FloatOf(row.voltage), current_cal))]
    ELSE row

\* csv_filename.replace(".csv", "_cal.csv") (line 825)
OutName(name) == SubSeq(name, 1, Len(name) - 1) \o <<"_cal", ".csv">>

\* process_and_calibrate_telemetry (765-832, the definition in force) on the
\* directory D at clock value now
ProcessAndCalibrate(D, name, now) ==
  LET f == D.files[name]
  IN IF ~f.exists THEN D
     ELSE IF D.cal.state = "absent"
       THEN [D EXCEPT !.cal = Table(DefaultPoints, now)]
     ELSE IF \/ TransferFunctionRaises(D.cal)
             \/ \E i \in DOMAIN f.rows :
                  FloatRaises(f.rows[i].current) \/ FloatRaises(f.rows[i].voltage)
       THEN [D EXCEPT !.status = "raised"]
     ELSE [D EXCEPT !.files[OutName(name)] =
             [exists |-> TRUE, mtime |-> now, hasCal |-> TRUE,
              rows |-> [i \in DOMAIN f.rows |->
                          CalibrateRow(f.rows[i], f.hasCal, D.cal.points,
                                       RecalibrateAll(D.cal.mtime, f.mtime))]]]

\* the loop at lines 761-762; an exception leaves it
RECURSIVE RunPass(_, _, _)
RunPass(D, list, now) ==
  IF list = <<>> \/ D.status = "raised" THEN D
  ELSE RunPass(ProcessAndCalibrate(D, Head(list), now), Tail(list), now)

\* glob: the name begins with the pieces of prefix and ends with those of suffix
GlobMatch(name, prefix, suffix) ==
  /\ Len(name) >= Len(prefix) + Len(suffix)
  /\ SubSeq(name, 1, Len(prefix)) = prefix
  /\ SubSeq(name, Len(name) - Len(suffix) + 1, Len(name)) = suffix

\* sorted(): `.` sorts before `_`, so a file comes before the files derived
\* from it, and the files of part N before those of part N + 1
NameKey(name) == PartOf(name) * (MaxCalDepth + 2) + Depth(name)
RECURSIVE SortedNames(_)
SortedNames(S) ==
  IF S = {} THEN <<>>
  ELSE LET m == CHOOSE x \in S : \A y \in S : NameKey(x) <= NameKey(y)
       IN <<m>> \o SortedNames(S \ {m})

\* line 751: glob <device>_telemetry*.csv; the model does not follow names
\* with more than MaxCalDepth `_cal` suffixes
TelemetryFiles(files) ==
  SortedNames({n \in Names : /\ files[n].exists
                             /\ GlobMatch(n, <<"dev", "_telemetry">>, <<".csv">>)
                             /\ Depth(n) < MaxCalDepth})

\* a pattern that matches every CSV file of the device
AnyCsvSuffix == <<".csv">>

\* line 899: glob <device>_telemetry*_cal.csv
CalibratedSuffix == <<"_cal", ".csv">>

CalibratedFiles(files) ==
  {n \in Names : files[n].exists /\ GlobMatch(n, <<"dev", "_telemetry">>, CalibratedSuffix)}

\* the `calibracion` command (calibrate_telemetries, 709-763) on the device
\* directory
CalibrateTelemetries ==
  /\ LET D == RunPass([files |-> csvFiles, cal |-> calibration, status |-> "ok"],
                      TelemetryFiles(csvFiles), clock)
     IN /\ csvFiles' = D.files
        /\ calibration' = D.cal
        /\ lastPass' = D.status
  /\ lastCmd' = "calibracion"
  /\ removed' = {}
  /\ UNCHANGED <<clock, downloadVars>>

\* the `uncal` command (remove_calibrated_files, 858-917): os.remove of each
\* matching file; a removal that fails is logged and the loop goes on
RemoveCalibratedFiles(failed) ==
  /\ failed \subseteq CalibratedFiles(csvFiles)
  /\ csvFiles' = [n \in Names |->
                    IF n \in CalibratedFiles(csvFiles) \ failed THEN NoCsv ELSE csvFiles[n]]
  /\ lastCmd' = "uncal"
  /\ removed' = CalibratedFiles(csvFiles) \ failed
  /\ UNCHANGED <<calibration, clock, lastPass, downloadVars>>

\* an operator replaces, damages or removes calibracion.json; the file the
\* engine then finds is what lines 774-777 and 677-682 read
OperatorCalibrations ==
  {NoCalibration, Table(DefaultPoints, clock), Table(KinkedPoints, clock),
   Table(OnePoint, clock), CorruptCalibration(clock)}

OperatorSetsCalibration(c) ==
  /\ c \in OperatorCalibrations
  /\ c # calibration
  /\ calibration' = c
  /\ lastCmd' = "env"
  /\ removed' = {}
  /\ UNCHANGED <<csvFiles, clock, lastPass, downloadVars>>

\* time passes
Tick ==
  /\ clock < MaxClock
  /\ clock' = clock + 1
  /\ lastCmd' = "env"
  /\ removed' = {}
  /\ UNCHANGED <<csvFiles, calibration, lastPass, downloadVars>>

\* the raw part files a download left: part 1 with up to MaxRows rows of any
\* reading, part 2 absent or with the two rows of SecondPartRows
CurrentCells == {AbsentCell, EmptyCell, BadCell, NumCell(-100), NumCell(0),
                 NumCell(250), NumCell(1000)}
VoltageCells == {EmptyCell, BadCell, NumCell(23000)}
RawRow(i, c, v) ==
  [timestamp |-> i, current |-> c, voltage |-> v,
   current_cal |-> AbsentCell, power_cal |-> AbsentCell]
RawRowSeqs ==
  UNION {{[i \in 1 .. n |-> RawRow(i, cs[i], vs[i])] :
            cs \in [1 .. n -> CurrentCells], vs \in [1 .. n -> VoltageCells]} :
         n \in 1 .. MaxRows}
SecondPartRows ==
  <<RawRow(1, NumCell(250), NumCell(23000)), RawRow(2, EmptyCell, NumCell(23000))>>
RawCsv(rows) == [exists |-> TRUE, mtime |-> 0, hasCal |-> FALSE, rows |-> rows]

DownloadIdle ==
  /\ remote = [d \in Devices |-> [k \in KeySet |-> {}]]
  /\ archive = EmptyArchive /\ prevArchive = EmptyArchive
  /\ calib = [d \in Devices |-> "unread"]
  /\ calFiles = [d \in Devices |-> {}]
  /\ run = 1 /\ pc = "done" /\ dev = 1 /\ keys = <<>>
  /\ probeDay = 0 /\ probeKey = 1
  /\ oldest_timestamp = {} /\ newest_timestamp = {}
  /\ start_ts = 0 /\ end_ts = 0 /\ start_ts_download = 0
  /\ file_part = 1 /\ all_data = <<>> /\ fetchEnd = "none"
  /\ pages = <<>> /\ written = <<>> /\ persisted = {}
  /\ deleteRequests = {} /\ log_entries = {}
  /\ reportWritten = FALSE /\ faults = 0

CalInit ==
  /\ DownloadIdle
  /\ \E rows \in RawRowSeqs, second \in BOOLEAN :
       csvFiles = [n \in Names |->
                     IF n = Name(1, 0) THEN RawCsv(rows)
                     ELSE IF n = Name(2, 0) /\ second
                       THEN RawCsv(SecondPartRows)
                     ELSE NoCsv]
  /\ removed = {}
  /\ calibration \in {NoCalibration, Table(DefaultPoints, 0), Table(KinkedPoints, 0),
                      Table(OnePoint, 0), CorruptCalibration(0)}
  /\ clock = 0
  /\ lastCmd = "env"
  /\ lastPass = "ok"

CalNext ==
  \/ CalibrateTelemetries
  \/ \E failed \in {{}} \cup {{n} : n \in Names} : RemoveCalibratedFiles(failed)
  \/ \E c \in OperatorCalibrations : OperatorSetsCalibration(c)
  \/ Tick

CalSpec == CalInit /\ [][CalNext]_vars

\* ------------------------------------------------------------- the claims
NowMs == LookbackDays * DayMs
HasRows(a) == \E p \in 1 .. MaxParts : Rows(a[p]) # <<>>
LastPart(a) == Max({p \in 1 .. MaxParts : Rows(a[p]) # <<>>})

\* C1 (idempotent resumption): a second run over an unchanged remote store, no
\* request failing, leaves every device's archive as the first run left it.
C1_IdempotentResumption ==
  (run = 2 /\ pc = "done" /\ faults = 0) => archive = prevArchive

\* C2 (monotonic timestamps): in every part file the row timestamps are
\* non-decreasing from the first data row to the last.
C2_MonotonicTimestamps ==
  \A d \in Devices, p \in 1 .. MaxParts :
    \A i, j \in DOMAIN Rows(archive[d][p]) :
      i < j => Rows(archive[d][p])[i].timestamp <= Rows(archive[d][p])[j].timestamp

\* C3 (resumption window): when the device's archive holds rows at the start of
\* its processing, the first page request starts 1 ms after the last recorded
\* timestamp and ends at the current time.
C3_ResumptionWindow ==
  (pages # <<>> /\ HasRows(prevArchive[dev])) =>
    /\ pages[1].startTs =
         TheVal(GetLastTelemetryTimestamp(prevArchive[dev][LastPart(prevArchive[dev])]))
           * MsPerSec + 1
    /\ pages[1].endTs = NowMs

\* C4 (exhaustive fetch): when the page loop ends without a failed request, every
\* remote sample of every requested key inside the window is in the merged rows.
C4_ExhaustiveFetch ==
  (pc = "calibrate" /\ fetchEnd \in {"exhausted", "empty"}) =>
    \A k \in Range(keys) : \A t \in InRange(dev, k, start_ts, end_ts) :
      t \in DOMAIN all_data /\ all_data[t][k] = {ValueAt(k, t)}

\* C5 (remote purge): once a device's window has been persisted and the device
\* is done, a delete of that same window has been issued for the device.
C5_RemotePurge == \A w \in persisted : w \in deleteRequests

\* C6 (no duplicate rows within a run): a timestamp written while one page was
\* persisted is not written again while a later page is persisted.
C6_NoDuplicateRowsInRun ==
  \A i, j \in DOMAIN written :
    written[i].ts = written[j].ts => written[i].page = written[j].page

\* C7 (chunking): the rows persisted for one page go to exactly one part file
\* each, and the part number starts at 1 and grows by 1.
C7_Chunking ==
  /\ \A i, j \in DOMAIN written :
       (written[i].ts = written[j].ts /\ written[i].page = written[j].page)
         => written[i].part = written[j].part
  /\ file_part >= 1
  /\ \A i \in DOMAIN written : i > 1 =>
       written[i].part \in {written[i - 1].part, written[i - 1].part + 1}

\* C8 (cold-start window): with no failed probe, the window the probe returns
\* starts at the oldest sample any key holds on the probed days up to the first
\* day with data, and ends at the newest sample of any key.
C8_ColdStartWindow ==
  (pc = "fetch" /\ pages = <<>> /\ faults = 0) =>
    /\ \A k \in Range(keys) :
         \A t \in InRange(dev, k, 0, (probeDay + 1) * DayMs) : start_ts <= t
    /\ \A k \in Range(keys) : \A t \in remote[dev][k] : t <= end_ts

\* C9 (window correction): every window handed to the page loop has
\* end_ts > start_ts.
C9_WindowCorrection == pc \in {"fetch", "write"} => end_ts > start_ts

\* C10 (batch continuation): no failure while processing one device ends the
\* run; the run always goes on to the next device and to the report.
C10_BatchContinuation == pc # "crashed"

\* C11 (no-data skip): when the remote store holds no sample of the device
\* inside the probe horizon, the step that ends the probe skips the device: no
\* page request was or is issued for it, no part file and no calibrated file
\* changes, the calibration file is not read, and the run goes on to the next
\* device (to the report after the last one).
NoSamplesInHorizon(d) ==
  \A k \in KeySet : InRange(d, k, 0, (LookbackDays + 1) * DayMs) = {}

C11_NoDataSkip ==
  [][(pc = "probe" /\ probeKey > Len(keys) /\ probeDay >= LookbackDays
        /\ NoSamplesInHorizon(dev))
       => /\ oldest_timestamp = {} /\ newest_timestamp = {}
          /\ pages = <<>> /\ pages' = <<>>
          /\ written' = <<>>
          /\ archive' = archive
          /\ calFiles' = calFiles
          /\ calib' = calib
          /\ <<dev, "no_data">> \in log_entries'
          /\ IF dev < NumDevices THEN pc' = "keys" /\ dev' = dev + 1
                                 ELSE pc' = "report"]_vars

\* the first device holds only samples older than the horizon, every key was
\* probed on every day, and the run has moved on to the second device
C11_Witness ==
  /\ pc = "keys" /\ dev = 2 /\ run = 1 /\ faults = 0
  /\ <<1, "no_data">> \in log_entries
  /\ NoSamplesInHorizon(1)
  /\ \E k \in KeySet : remote[1][k] # {}
  /\ archive[1] = EmptyArchive[1] /\ calFiles[1] = {} /\ calib[1] = "unread"

\* C12 (merge completeness): the merged rows of the device hold one row for
\* each distinct timestamp of the samples fetched so far; the row of t holds
\* the value of key k exactly when a sample (k, t) was fetched and an empty
\* cell otherwise, never a zero; and each row the writer appended renders the
\* merged row of its timestamp cell by cell.
PagesFolded == IF fetchEnd = "error" THEN Len(pages) - 1 ELSE Len(pages)
SamplesFetched(k) ==
  UNION {Range(pages[i].resp[k]) : i \in 1 .. PagesFolded}

C12_MergeCompleteness ==
  pc \in {"fetch", "write", "calibrate"} =>
    /\ DOMAIN all_data = UNION {SamplesFetched(k) : k \in Range(keys)}
    /\ \A t \in DOMAIN all_data : \A k \in Range(keys) :
         all_data[t][k] = IF t \in SamplesFetched(k) THEN {ValueAt(k, t)} ELSE {}
    /\ \A i \in DOMAIN written :
         \E j \in DOMAIN archive[dev][written[i].part] :
           archive[dev][written[i].part][j] =
             [kind |-> "row", timestamp |-> FormatTs(written[i].ts),
              cells |-> [k \in Range(keys) |-> all_data[written[i].ts][k]]]

\* two pages were folded and written: one timestamp with both keys, a later
\* one with a current sample only, whose voltage cell is empty
C12_Witness ==
  /\ pc = "fetch" /\ Len(pages) = 2 /\ written # <<>>
  /\ \E t1, t2 \in DOMAIN all_data :
       /\ t1 < t2
       /\ all_data[t1]["current"] # {} /\ all_data[t1]["voltage"] # {}
       /\ all_data[t2]["current"] # {} /\ all_data[t2]["voltage"] = {}
       /\ \E i \in DOMAIN written : written[i].ts = t2 /\ written[i].page = 2

\* C13 (header once): every part file that exists holds exactly one header
\* line, and it is the first line of the file; a step adds a header only to a
\* file that did not exist or was empty.
C13_HeaderOnce ==
  \A d \in Devices, p \in 1 .. MaxParts :
    archive[d][p] # NoFile =>
      /\ Len(Headers(archive[d][p])) = 1
      /\ archive[d][p][1].kind = "header"
      /\ Len(Headers(prevArchive[d][p])) = 1 => archive[d][p][1] = prevArchive[d][p][1]

\* in the second run a part file of the first run was appended to and a further
\* part was opened
C13_Witness ==
  \E d \in Devices :
    /\ run = 2
    /\ prevArchive[d][1] # NoFile
    /\ Len(archive[d][1]) > Len(prevArchive[d][1])
    /\ prevArchive[d][3] = NoFile /\ archive[d][3] # NoFile

\* C14 (default calibration): when the run found no calibration file for a
\* device and created the default one, every part file of the device that the
\* calibration loop processed has its calibrated file at the end of that run.
C14_DefaultCalibration ==
  (run = 1 /\ pc = "done") =>
    \A d \in Devices : calib[d] = "default" =>
      \A p \in 1 .. MaxParts : archive[d][p] # NoFile => p \in calFiles[d]

\* C15 (recalibration trigger): in a calibration pass that completes, for every
\* file the pass read while the calibration file existed and whose
\* modification time is earlier than the calibration file's, every row of the
\* file written from it holds the current_cal and power_cal computed from the
\* current table and the row's current and voltage.
ReadWithTable(n) ==
  /\ n \in Range(TelemetryFiles(csvFiles))
  /\ calibration.state # "absent" \/ n # TelemetryFiles(csvFiles)[1]

C15_RecalibrationTrigger ==
  [][\A n \in Names :
       (/\ lastCmd' = "calibracion" /\ lastPass' = "ok"
        /\ ReadWithTable(n)
        /\ calibration'.mtime > csvFiles'[n].mtime)
       => LET src == csvFiles'[n]
              dst == csvFiles'[OutName(n)]
          IN /\ dst.exists /\ dst.mtime = clock
             /\ Len(dst.rows) = Len(src.rows)
             /\ \A i \in DOMAIN src.rows :
                  LET cc == CurrentCal(calibration'.points, FloatOf(src.rows[i].current))
                  IN /\ dst.rows[i].current_cal = NumCell(cc)
                     /\ dst.rows[i].power_cal =
                          NumCell(PowerCal(FloatOf(src.rows[i].voltage), cc))]_vars

\* a pass has rewritten, from the current table, a file made from a file whose
\* derived values were computed from an older table
C15_Witness ==
  /\ lastCmd = "calibracion" /\ lastPass = "ok"
  /\ \E n \in Names :
       /\ csvFiles[n].exists /\ csvFiles[n].hasCal
       /\ calibration.mtime > csvFiles[n].mtime
       /\ csvFiles[OutName(n)].exists /\ csvFiles[OutName(n)].mtime = clock
       /\ \E i \in DOMAIN csvFiles[n].rows :
            /\ csvFiles[n].rows[i].current_cal # csvFiles[OutName(n)].rows[i].current_cal
            /\ csvFiles[OutName(n)].rows[i].current_cal =
                 NumCell(CurrentCal(calibration.points, FloatOf(csvFiles[n].rows[i].current)))

\* C16 (zero-current policy): in every file a calibration pass wrote, a row
\* whose current is empty, absent or not above zero has current_cal = 0 and
\* power_cal = 0, whatever table the pass used; the fields are not empty.
C16_ZeroCurrentPolicy ==
  \A n \in Names :
    (csvFiles[n].exists /\ csvFiles[n].hasCal) =>
      \A i \in DOMAIN csvFiles[n].rows :
        LET row == csvFiles[n].rows[i]
        IN (row.current.kind \in {"absent", "empty"}
              \/ (row.current.kind = "num" /\ row.current.val <= 0))
             => row.current_cal = NumCell(0) /\ row.power_cal = NumCell(0)

\* a pass under the table that is not the identity wrote a row whose current
\* is negative: the transfer function would give a value other than zero
C16_Witness ==
  /\ lastCmd = "calibracion" /\ lastPass = "ok"
  /\ calibration.state = "json" /\ calibration.points = KinkedPoints
  /\ csvFiles[Name(1, 1)].exists /\ csvFiles[Name(1, 1)].mtime = clock
  /\ csvFiles[Name(1, 1)].rows[1].current = NumCell(-100)
  /\ csvFiles[Name(1, 1)].rows[1].voltage = NumCell(23000)
  /\ csvFiles[Name(1, 1)].rows[1].current_cal = NumCell(0)
  /\ TransferFunction(KinkedPoints, -100) # 0

\* C17 (calibration correctness): in a pass that completes, for every raw part
\* file read while the calibration file existed and every row with a current
\* above zero: current_cal lies, to the nearest hundredth, on the straight line
\* through two neighbouring calibration points, the pair around the reading or,
\* outside the sampled range, the nearest pair (no clamping); with a table
\* whose points are all (x, x) it equals the reading; and power_cal is
\* voltage * current_cal to the nearest hundredth.
Neighbours(points, a, b) ==
  /\ a \in Range(points) /\ b \in Range(points)
  /\ a[1] < b[1]
  /\ ~\E c \in Range(points) : a[1] < c[1] /\ c[1] < b[1]

OnSegment(points, a, b, x) ==
  /\ x >= a[1] \/ ~\E c \in Range(points) : c[1] < a[1]
  /\ x <= b[1] \/ ~\E c \in Range(points) : c[1] > b[1]

Nearest(value, num, den) ==
  /\ 2 * (value * den - num) <= den
  /\ 2 * (num - value * den) <= den

C17_CalibrationCorrectness ==
  [][\A p \in 1 .. CalParts :
       (/\ lastCmd' = "calibracion" /\ lastPass' = "ok"
        /\ ReadWithTable(Name(p, 0)))
       => LET src == csvFiles'[Name(p, 0)]
              dst == csvFiles'[Name(p, 1)]
              points == calibration'.points
          IN \A i \in DOMAIN src.rows :
               LET x == FloatOf(src.rows[i].current)
                   v == FloatOf(src.rows[i].voltage)
                   cc == dst.rows[i].current_cal.val
               IN x > 0 =>
                    /\ dst.rows[i].current_cal.kind = "num"
                    /\ dst.rows[i].power_cal.kind = "num"
                    /\ \E a, b \in Range(points) :
                         /\ Neighbours(points, a, b)
                         /\ OnSegment(points, a, b, x)
                         /\ Nearest(cc, a[2] * (b[1] - a[1]) + (b[2] - a[2]) * (x - a[1]),
                                    b[1] - a[1])
                    /\ (\A c \in Range(points) : c[1] = c[2]) => cc = x
                    /\ Nearest(dst.rows[i].power_cal.val, v * cc, Hundredths)]_vars

\* under the default table a reading of 10.00, beyond the last point 4.00, was
\* calibrated to 10.00, and the reading 2.50 of the second part to 2.50
C17_Witness ==
  /\ lastCmd = "calibracion" /\ lastPass = "ok"
  /\ calibration.state = "json" /\ calibration.points = DefaultPoints
  /\ csvFiles[Name(1, 1)].exists /\ csvFiles[Name(1, 1)].mtime = clock
  /\ csvFiles[Name(1, 1)].rows[1].current = NumCell(1000)
  /\ csvFiles[Name(1, 1)].rows[1].current_cal = NumCell(1000)
  /\ csvFiles[Name(1, 1)].rows[1].power_cal = NumCell(230000)
  /\ csvFiles[Name(2, 1)].exists
  /\ csvFiles[Name(2, 1)].rows[1].current_cal = NumCell(250)

\* C18 (insufficient calibration data): when the calibration step of a device
\* finds a calibration file the transfer function cannot be built from, it
\* writes no calibrated file, leaves the part files as they are, and the run
\* goes on.
C18_InsufficientCalibrationData ==
  [][(pc = "calibrate" /\ PartsToCalibrate # {} /\ calib'[dev] = "invalid")
       => /\ calFiles' = calFiles
          /\ archive' = archive
          /\ pc' # "crashed"]_vars

\* C19 (calibration reset): a run of remove_calibrated_files changes no file
\* other than by removing one whose name ends in _cal.csv; every raw part file
\* and the calibration file are as they were.
C19_CalibrationReset ==
  [][lastCmd' = "uncal"
       => /\ \A n \in Names :
               csvFiles'[n] # csvFiles[n] =>
                 /\ ~csvFiles'[n].exists
                 /\ Depth(n) >= 1
                 /\ n[Len(n) - 1] = "_cal" /\ n[Len(n)] = ".csv"
          /\ \A p \in 1 .. CalParts : csvFiles'[Name(p, 0)] = csvFiles[Name(p, 0)]
          /\ calibration' = calibration]_vars

\* the command removed calibrated files of both depths while both raw parts
\* and the calibration file were there
C19_Witness ==
  /\ lastCmd = "uncal"
  /\ Name(1, 1) \in removed /\ Name(1, 2) \in removed
  /\ csvFiles[Name(1, 0)].exists /\ csvFiles[Name(2, 0)].exists
  /\ ~csvFiles[Name(1, 1)].exists
  /\ calibration.state = "json"

\* C20 (fetch failure isolation): the step in which a page request fails is the
\* only attempt of that page; it writes no row, keeps the merged rows and the
\* part files as they were, and hands the device to its calibration step; a
\* calibration step that follows a failed page and does not itself raise hands
\* the run to the next device (to the report after the last one).
C20_FetchFailureIsolation ==
  [][/\ (pc = "fetch" /\ faults' = faults + 1)
          => /\ Len(pages') = Len(pages) + 1
             /\ pc' = "calibrate" /\ dev' = dev
             /\ fetchEnd' = "error"
             /\ archive' = archive
             /\ written' = written
             /\ all_data' = all_data
             /\ \A i \in DOMAIN written' : written'[i].page < Len(pages')
     /\ (pc = "calibrate" /\ fetchEnd = "error" /\ calib'[dev] # "invalid")
          => /\ archive' = archive
             /\ IF dev < NumDevices THEN pc' = "keys" /\ dev' = dev + 1
                                    ELSE pc' = "report"]_vars

\* the second page request of a device failed after the first page was written
C20_Witness ==
  /\ pc = "calibrate" /\ fetchEnd = "error" /\ faults = 1
  /\ Len(pages) = 2
  /\ written # <<>>
  /\ \A i \in DOMAIN written : written[i].page = 1
  /\ Rows(archive[dev][1]) # <<>>

\* C21 (empty page stops the fetch): when a page request succeeds and its
\* response carries no sample, as an empty mapping or as a mapping in which
\* every key has an empty list, the fetch loop of the device stops normally:
\* nothing is folded or written for that page, the end of the fetch is
\* recorded as "no more data", and the device goes on to its calibration.
LastPageEmpty(ps) ==
  /\ ps # <<>>
  /\ \A k \in DOMAIN ps[Len(ps)].resp : ps[Len(ps)].resp[k] = <<>>

C21_EmptyPageStops ==
  [][(pc = "fetch" /\ Len(pages') = Len(pages) + 1 /\ faults' = faults
        /\ LastPageEmpty(pages'))
       => /\ pc' = "calibrate" /\ dev' = dev
          /\ fetchEnd' = "empty"
          /\ all_data' = all_data
          /\ written' = written
          /\ archive' = archive]_vars

\* C23 as stated (probe failure is no data): a probe step of one key on one
\* day in which a request fails leaves the range found so far exactly as it
\* was, as a probe that found no sample of the key on that day does.
C23_FailureIsNoData ==
  [][(pc = "probe" /\ faults' = faults + 1)
       => /\ oldest_timestamp' = oldest_timestamp
          /\ newest_timestamp' = newest_timestamp]_vars

\* C23 (probe failure isolation): a probe step of one key on one day in which
\* either request fails is logged and does not end the probe: the next key of
\* the day is the one probed next (the next day after the last key), the
\* newest timestamp found so far is kept, and the oldest timestamp found so
\* far is kept or, when it was the second request that failed, lowered to the
\* first sample the first request returned for the key on that day; no file
\* changes and the device is not left.
C23_ProbeFailureIsolation ==
  [][(pc = "probe" /\ faults' = faults + 1)
       => /\ pc' = "probe" /\ dev' = dev /\ keys' = keys
          /\ probeDay' = probeDay
          /\ probeKey' = probeKey + 1
          /\ <<dev, "probe_error">> \in log_entries'
          /\ newest_timestamp' = newest_timestamp
          /\ \/ oldest_timestamp' = oldest_timestamp
             \/ LET first == InRange(dev, keys[probeKey], probeDay * DayMs,
                                     (probeDay + 1) * DayMs)
                IN /\ first # {}
                   /\ oldest_timestamp' = {Min(first)}
                   /\ oldest_timestamp # {} => Min(first) < TheVal(oldest_timestamp)
          /\ archive' = archive
          /\ calFiles' = calFiles]_vars

\* the second request for the first of two keys failed after the first request
\* had found the key's oldest sample; the second key was then probed, its
\* requests completed the range, and the range starts at the sample of the
\* key whose probe failed
C23_Witness ==
  /\ pc = "fetch" /\ pages = <<>> /\ faults = 1
  /\ <<dev, "probe_error">> \in log_entries
  /\ Len(keys) = 2
  /\ remote[dev][keys[1]] # {} /\ remote[dev][keys[2]] # {}
  /\ start_ts = Min(remote[dev][keys[1]])
  /\ start_ts < Min(remote[dev][keys[2]])
  /\ end_ts = Max(remote[dev][keys[2]])

\* C24 (device processing terminates): once the page loop of a device has been
\* entered, in a run that started on an empty archive, the device's fetch and
\* write loops are left after finitely many steps: the run reaches the
\* calibration of the device (or ends).
C24_DeviceTerminates ==
  (run = 1 /\ pc \in {"fetch", "write"}) ~> (pc \in {"calibrate", "crashed"})

\* C22 (unparseable readings default to 0): a `calibracion` pass that finds a
\* usable calibration table completes and leaves for every raw part a
\* calibrated file with all the rows of the part; in it a row whose current is
\* missing, empty or not a number has current_cal = 0 and power_cal = 0, and
\* a row whose voltage is missing, empty or not a number has power_cal = 0.
Defaulted(cell) == cell.kind \in {"absent", "empty", "bad"}

C22_UnparseableDefaultsToZero ==
  [][(lastCmd' = "calibracion" /\ calibration.state = "json"
        /\ ~TransferFunctionRaises(calibration))
       => /\ lastPass' = "ok"
          /\ \A p \in 1 .. CalParts :
               LET raw == csvFiles[Name(p, 0)]
                   out == csvFiles'[Name(p, 1)]
               IN raw.exists =>
                    /\ out.exists
                    /\ Len(out.rows) = Len(raw.rows)
                    /\ \A i \in DOMAIN raw.rows :
                         /\ Defaulted(raw.rows[i].current) =>
                              /\ out.rows[i].current_cal = NumCell(0)
                              /\ out.rows[i].power_cal = NumCell(0)
                         /\ Defaulted(raw.rows[i].voltage) =>
                              out.rows[i].power_cal = NumCell(0)]_vars

\* C25 (calibration pass is idempotent on the file set): a `calibracion` pass
\* that directly follows a completed pass which left every raw part with its
\* calibrated file (archives and calibration unchanged in between) creates no
\* file: the files that exist after it are the files that existed before it,
\* and no file derived from a calibrated file exists.
Existing(files) == {n \in Names : files[n].exists}

C25_PassIdempotentOnFileSet ==
  [][(/\ lastCmd = "calibracion" /\ lastPass = "ok"
      /\ \A p \in 1 .. CalParts :
           csvFiles[Name(p, 0)].exists => csvFiles[Name(p, 1)].exists
      /\ lastCmd' = "calibracion")
       => /\ Existing(csvFiles') = Existing(csvFiles)
          /\ \A n \in Existing(csvFiles') : Depth(n) <= 1]_vars

\* C26 (calibration preserves the raw data): a `calibracion` pass leaves every
\* raw part file as it was, and the calibrated file of a raw part has the rows
\* of the part in the same order, each with the part's timestamp, current and
\* voltage cells unchanged and with the cells current_cal and power_cal added.
RawColumns(row) == <<row.timestamp, row.current, row.voltage>>

C26_RawDataPreserved ==
  [][lastCmd' = "calibracion"
       => \A p \in 1 .. CalParts :
            LET raw == csvFiles[Name(p, 0)]
                out == csvFiles'[Name(p, 1)]
            IN /\ csvFiles'[Name(p, 0)] = raw
               /\ (raw.exists /\ out.exists) =>
                    /\ Len(out.rows) = Len(raw.rows)
                    /\ \A i \in DOMAIN raw.rows :
                         /\ RawColumns(out.rows[i]) = RawColumns(raw.rows[i])
                         /\ out.rows[i].current_cal.kind # "absent"
                         /\ out.rows[i].power_cal.kind # "absent"]_vars

\* a pass over two parts completed; the second part's two rows, one of them
\* with an empty current cell, are in its calibrated file in the part's order
C26_Witness ==
  /\ lastCmd = "calibracion" /\ lastPass = "ok"
  /\ csvFiles[Name(1, 1)].exists /\ csvFiles[Name(2, 1)].exists
  /\ Len(csvFiles[Name(2, 1)].rows) = 2
  /\ csvFiles[Name(2, 1)].rows[1].current = NumCell(250)
  /\ csvFiles[Name(2, 1)].rows[2].current = EmptyCell
  /\ csvFiles[Name(2, 1)].rows[2].current_cal = NumCell(0)
  /\ csvFiles[Name(2, 0)] = RawCsv(SecondPartRows)

====
